---- MODULE Spec2Model ----
(***************************************************************************)
(* Model of impl-tools' default.rs (the `#[impl_default]` attribute, the   *)
(* extended field-list parser and its printer) and autoimpl/impl_misc.rs   *)
(* (the Clone, Debug and Default generators).                              *)
(*                                                                         *)
(* A TokenStream is a sequence of strings, one string per token; the       *)
(* delimiters of a group are the tokens "(" ")" "{" "}".  A where-clause   *)
(* is the single opaque token "where" (its content is parsed by syn).      *)
(* An Option is a sequence: <<>> is None, a non-empty sequence is Some.    *)
(***************************************************************************)
EXTENDS Integers, Sequences, FiniteSets, TLC

\* ------------------------------------------------------------------ bounds
MaxFields == 2
MaxGen == 2

\* ------------------------------------------------------------- token sets
NamePool == <<"b", "a", "c", "d", "e">>
IdentToks == {NamePool[i] : i \in 1..Len(NamePool)} \cup {"_"}
TypeToks == {"u8", "i32"}
AttrToks == {"#[doc]"}
ExprAtoms == {"e1", "e2", "compute_default"}
TypeIdent == "Foo"

\* ------------------------------------------------------- sequence helpers
RECURSIVE Concat(_)
Concat(ss) == IF ss = <<>> THEN <<>> ELSE Head(ss) \o Concat(Tail(ss))

RECURSIVE JoinWith(_, _)
JoinWith(ss, sep) ==
    IF ss = <<>> THEN <<>>
    ELSE IF Len(ss) = 1 THEN ss[1]
    ELSE ss[1] \o sep \o JoinWith(Tail(ss), sep)

Drop(s, n) == SubSeq(s, n + 1, Len(s))
Peek(s, t) == s # <<>> /\ Head(s) = t
PeekIn(s, S) == s # <<>> /\ Head(s) \in S

\* index of the first occurrence of t in s, 0 if there is none
RECURSIVE IndexOf(_, _, _)
IndexOf(s, t, i) ==
    IF i > Len(s) THEN 0
    ELSE IF s[i] = t THEN i
    ELSE IndexOf(s, t, i + 1)

\* ---------------------------------------------------------------- parsing
NoField == [attrs |-> <<>>, vis |-> <<>>, ident |-> <<>>, colon_token |-> <<>>,
            ty |-> <<>>, assign |-> <<>>]

\* Results of the parsers are handed on as arguments, one operator per step
\* of the code, so that each step is evaluated once.

\* syn's Expr parser on the expressions used here: atom ("+" atom)*
ExprCons(toks, r) == [expr |-> toks \o r.expr, rest |-> r.rest]

RECURSIVE ParseExprTail(_)
ParseExprTail(toks) ==
    IF Len(toks) >= 2 /\ toks[1] = "+" /\ toks[2] \in ExprAtoms
    THEN ExprCons(<<"+", toks[2]>>, ParseExprTail(Drop(toks, 2)))
    ELSE [expr |-> <<>>, rest |-> toks]

ExprOk(r) == [ok |-> TRUE, expr |-> r.expr, rest |-> r.rest]

ParseExpr(toks) ==
    IF PeekIn(toks, ExprAtoms)
    THEN ExprOk(ExprCons(<<Head(toks)>>, ParseExprTail(Tail(toks))))
    ELSE [ok |-> FALSE, expr |-> <<>>, rest |-> toks]

\* Attribute::parse_outer: every leading attribute
AttrCons(tok, r) == [attrs |-> <<tok>> \o r.attrs, rest |-> r.rest]

RECURSIVE ParseAttrs(_)
ParseAttrs(toks) ==
    IF PeekIn(toks, AttrToks)
    THEN AttrCons(Head(toks), ParseAttrs(Tail(toks)))
    ELSE [attrs |-> <<>>, rest |-> toks]

\* Visibility: `pub` or inherited
ParseVis(toks) == IF Peek(toks, "pub") THEN <<"pub">> ELSE <<>>

\* the `assign` suffix shared by parse_named and parse_unnamed
AssignOf(e) == [ok |-> e.ok, assign |-> e.expr, rest |-> e.rest]

ParseAssign(toks) ==
    IF Peek(toks, "=")
    THEN AssignOf(ParseExpr(Tail(toks)))
    ELSE [ok |-> TRUE, assign |-> <<>>, rest |-> toks]

FieldErr == [ok |-> FALSE, field |-> NoField, rest |-> <<>>]

\* Ok(Field { .. }) once every part is parsed; s is the parsed assign
MakeField(attrs, vis, ident, colon_token, ty, s) ==
    IF s.ok
    THEN [ok |-> TRUE,
          field |-> [attrs |-> attrs, vis |-> vis, ident |-> ident,
                     colon_token |-> colon_token, ty |-> ty, assign |-> s.assign],
          rest |-> s.rest]
    ELSE FieldErr

\* parse_named after attrs and vis: ident, colon_token, ty, assign
parse_named_rest(attrs, vis, toks) ==
    IF ~PeekIn(toks, IdentToks) THEN FieldErr
    ELSE IF ~Peek(Tail(toks), ":") THEN FieldErr
    ELSE IF ~PeekIn(Drop(toks, 2), TypeToks) THEN FieldErr
    ELSE MakeField(attrs, vis, <<toks[1]>>, <<":">>, <<toks[3]>>,
                   ParseAssign(Drop(toks, 3)))

parse_named_vis(a, vis) == parse_named_rest(a.attrs, vis, Drop(a.rest, Len(vis)))
parse_named_attrs(a) == parse_named_vis(a, ParseVis(a.rest))
parse_named(toks) == parse_named_attrs(ParseAttrs(toks))

\* parse_unnamed after attrs and vis: ty, assign
parse_unnamed_rest(attrs, vis, toks) ==
    IF ~PeekIn(toks, TypeToks) THEN FieldErr
    ELSE MakeField(attrs, vis, <<>>, <<>>, <<toks[1]>>, ParseAssign(Tail(toks)))

parse_unnamed_vis(a, vis) == parse_unnamed_rest(a.attrs, vis, Drop(a.rest, Len(vis)))
parse_unnamed_attrs(a) == parse_unnamed_vis(a, ParseVis(a.rest))
parse_unnamed(toks) == parse_unnamed_attrs(ParseAttrs(toks))

PunctErr == [ok |-> FALSE, fields |-> <<>>, trailing |-> FALSE]

\* a parsed value and the rest of the list pushed after it
PunctCons(f, r) ==
    IF r.ok
    THEN [ok |-> TRUE, fields |-> <<f.field>> \o r.fields,
          trailing |-> IF Len(f.rest) = 1 THEN TRUE ELSE r.trailing]
    ELSE PunctErr

\* Punctuated::parse_terminated over the content of a group: values
\* separated by ",", an optional trailing ",".
RECURSIVE parse_terminated(_, _)
RECURSIVE parse_terminated_value(_, _)
parse_terminated_value(f, named) ==
    IF ~f.ok THEN PunctErr
    ELSE IF f.rest = <<>>
    THEN [ok |-> TRUE, fields |-> <<f.field>>, trailing |-> FALSE]
    ELSE IF ~Peek(f.rest, ",") THEN PunctErr
    ELSE PunctCons(f, parse_terminated(Tail(f.rest), named))

parse_terminated(toks, named) ==
    IF toks = <<>> THEN [ok |-> TRUE, fields |-> <<>>, trailing |-> FALSE]
    ELSE IF named THEN parse_terminated_value(parse_named(toks), named)
    ELSE parse_terminated_value(parse_unnamed(toks), named)

NoFields == [kind |-> "Unit", fields |-> <<>>, trailing |-> FALSE]

GroupOf(r, kind, rest) ==
    IF r.ok
    THEN [ok |-> TRUE,
          fields |-> [kind |-> kind, fields |-> r.fields, trailing |-> r.trailing],
          rest |-> rest]
    ELSE [ok |-> FALSE, fields |-> NoFields, rest |-> rest]

\* braced!/parenthesized! followed by parse_terminated; toks starts with the
\* opening delimiter and the group ends at index j (token streams are
\* balanced, the groups here do not nest)
ParseGroupAt(toks, j, kind) ==
    GroupOf(parse_terminated(SubSeq(toks, 2, j - 1), kind = "Named"), kind,
            Drop(toks, j))

Parse_FieldsUnnamed(toks) == ParseGroupAt(toks, IndexOf(toks, ")", 1), "Unnamed")
parse_braced(toks) == ParseGroupAt(toks, IndexOf(toks, "}", 1), "Named")

DataErr == [ok |-> FALSE, where_clause |-> FALSE, fields |-> NoFields,
            semi |-> FALSE, rest |-> <<>>]

\* data_struct, positional form, from the terminator on
data_struct_semi(f, where_clause, toks) ==
    IF Peek(toks, ";")
    THEN [ok |-> TRUE, where_clause |-> where_clause, fields |-> f.fields,
          semi |-> TRUE, rest |-> Tail(toks)]
    ELSE DataErr

\* data_struct, positional form, after the field list f
data_struct_unnamed(f) ==
    IF ~f.ok THEN DataErr
    ELSE IF Peek(f.rest, "where") THEN data_struct_semi(f, TRUE, Tail(f.rest))
    ELSE data_struct_semi(f, FALSE, f.rest)

\* data_struct, named form, after the field list f
data_struct_named(f, where_clause) ==
    IF ~f.ok THEN DataErr
    ELSE [ok |-> TRUE, where_clause |-> where_clause, fields |-> f.fields,
          semi |-> FALSE, rest |-> f.rest]

\* mutant: the positional form is tried after a leading where-clause too
data_struct_body_any_where(where_clause, toks) ==
    IF Peek(toks, "(") THEN data_struct_unnamed(Parse_FieldsUnnamed(toks))
    ELSE IF Peek(toks, "{") THEN data_struct_named(parse_braced(toks), where_clause)
    ELSE IF Peek(toks, ";")
    THEN [ok |-> TRUE, where_clause |-> where_clause, fields |-> NoFields,
          semi |-> TRUE, rest |-> Tail(toks)]
    ELSE DataErr

\* data_struct after the optional leading where-clause
data_struct_body(where_clause, toks) ==
    IF ~where_clause /\ Peek(toks, "(")
    THEN data_struct_unnamed(Parse_FieldsUnnamed(toks))
    ELSE IF Peek(toks, "{") THEN data_struct_named(parse_braced(toks), where_clause)
    ELSE IF Peek(toks, ";")
    THEN [ok |-> TRUE, where_clause |-> where_clause, fields |-> NoFields,
          semi |-> TRUE, rest |-> Tail(toks)]
    ELSE DataErr

data_struct(toks) ==
    IF Peek(toks, "where") THEN data_struct_body(TRUE, Tail(toks))
    ELSE data_struct_body(FALSE, toks)

\* --------------------------------------------------------------- printing
DefaultDefault == <<"Default", "::", "default", "(", ")">>
DanglingDefault ==
    "default value on 'struct' field in output; help: did you mean to use the '#[impl_default]' attribute?"
MissingContext == "invalid use outside of 'impl_scope!' macro"
UnsupportedItem == "default: only supports enum, struct, type alias and union items"
NonStructNeedsValue == "must specify value as '#[impl_default(value)]' on non-struct type"
Unexpected == "unexpected"
SyntaxError == "syntax error"

\* TokensOrDefault(&self.colon_token)
TokensOrDefault(opt, dflt) == IF opt # <<>> THEN opt ELSE dflt

\* mutant: the default expression is passed through
Field_to_tokens_leak(field) ==
    field.attrs \o field.vis
    \o (IF field.ident # <<>>
        THEN field.ident \o TokensOrDefault(field.colon_token, <<":">>)
        ELSE <<>>)
    \o field.ty
    \o (IF field.assign # <<>> THEN <<"=">> \o field.assign ELSE <<>>)

\* impl ToTokens for Field: the tokens appended
Field_to_tokens(field) ==
    field.attrs \o field.vis
    \o (IF field.ident # <<>>
        THEN field.ident \o TokensOrDefault(field.colon_token, <<":">>)
        ELSE <<>>)
    \o field.ty

\* impl ToTokens for Field: the diagnostics emitted
Field_emit_error(field) ==
    IF field.assign # <<>> THEN <<DanglingDefault>> ELSE <<>>

\* Punctuated::to_tokens: each value followed by its punctuation
Punctuated_to_tokens(fields, trailing) ==
    JoinWith([i \in 1..Len(fields) |-> Field_to_tokens(fields[i])], <<",">>)
    \o (IF trailing THEN <<",">> ELSE <<>>)

\* impl ToTokens for FieldsNamed / FieldsUnnamed (a unit body has no list)
Fields_to_tokens(fs) ==
    IF fs.kind = "Named"
    THEN <<"{">> \o Punctuated_to_tokens(fs.fields, fs.trailing) \o <<"}">>
    ELSE IF fs.kind = "Unnamed"
    THEN <<"(">> \o Punctuated_to_tokens(fs.fields, fs.trailing) \o <<")">>
    ELSE <<>>

Fields_emit_errors(fs) ==
    Concat([i \in 1..Len(fs.fields) |-> Field_emit_error(fs.fields[i])])

\* ------------------------------------------------- #[impl_default] (scope)
NoAttr == [expr |-> <<>>, where_clause |-> FALSE]

\* impl Parse for ImplDefault
Parse_ImplDefault(toks) ==
    LET e == IF ~Peek(toks, "where") /\ toks # <<>>
             THEN ParseExpr(toks)
             ELSE [ok |-> TRUE, expr |-> <<>>, rest |-> toks]
        w == Peek(e.rest, "where")
        t == IF w THEN Tail(e.rest) ELSE e.rest
    IN  IF ~e.ok THEN [ok |-> FALSE, attr |-> NoAttr, err |-> SyntaxError]
        ELSE IF t # <<>> THEN [ok |-> FALSE, attr |-> NoAttr, err |-> Unexpected]
        ELSE [ok |-> TRUE, attr |-> [expr |-> e.expr, where_clause |-> w], err |-> ""]

\* the header of the generated impl up to the opening of fn default; the
\* generics are empty and each where-clause that clause_to_toks merges is
\* one opaque token
ImplHeader(ident, attr_wc, item_wc) ==
    <<"impl", "std", "::", "default", "::", "Default", "for", ident>>
    \o (IF attr_wc \/ item_wc THEN <<"where">> ELSE <<>>)
    \o <<"{", "fn", "default", "(", ")", "->", "Self", "{">>

\* mutant: the per-field path's generic default instead of the expression
gen_expr_generic(attr, ident, item_wc) ==
    ImplHeader(ident, attr.where_clause, item_wc) \o <<ident, "{", "}">> \o <<"}", "}">>

gen_expr(attr, ident, item_wc) ==
    ImplHeader(ident, attr.where_clause, item_wc) \o attr.expr \o <<"}", "}">>

\* the closure of impl_default applied to one field: the initializer
impl_default_field(field) ==
    IF field.assign # <<>>
    THEN field.ident \o <<":">> \o field.assign
    ELSE field.ident \o <<":">> \o DefaultDefault

\* mutant: the attributes are taken along with the default expression
take_assign_and_attrs(field) == [field EXCEPT !.assign = <<>>, !.attrs = <<>>]

\* mutant: the default expression is cloned, not taken
take_assign_clone(field) == field

\* field.assign.take()
take_assign(field) == [field EXCEPT !.assign = <<>>]

\* the `fields` token stream of impl_default
impl_default_fields(fs) ==
    IF fs.kind \in {"Named", "Unnamed"}
    THEN JoinWith([i \in 1..Len(fs.fields) |-> impl_default_field(fs.fields[i])],
                  <<",">>)
    ELSE <<>>

\* mutant: no field list at all when there are no initializers
impl_default_body_bare(ident, fields) ==
    IF fields = <<>> THEN <<ident>> ELSE <<ident, "{">> \o fields \o <<"}">>

\* the fragment impl_default pushes when the attribute has no expression
impl_default_body(ident, fields) == <<ident, "{">> \o fields \o <<"}">>

\* fn impl_default: the scope afterwards, the Result and the error carried
impl_default(attr_toks, sc) ==
    LET p == Parse_ImplDefault(attr_toks) IN
    IF ~p.ok THEN [ret |-> "Err", scope |-> sc, errors |-> <<p.err>>]
    ELSE IF p.attr.expr # <<>>
    THEN [ret |-> "Ok",
          scope |-> [sc EXCEPT !.generated =
                        Append(@, gen_expr(p.attr, sc.ident, sc.where_clause))],
          errors |-> <<>>]
    ELSE IF sc.item # "Struct"
    THEN [ret |-> "Err", scope |-> sc, errors |-> <<NonStructNeedsValue>>]
    ELSE LET fields == impl_default_fields(sc.fields)
             taken == [sc.fields EXCEPT !.fields =
                          [i \in 1..Len(sc.fields.fields) |->
                              take_assign(sc.fields.fields[i])]]
         IN  [ret |-> "Ok",
              scope |-> [sc EXCEPT
                  !.fields = taken,
                  !.generated = Append(@,
                      ImplHeader(sc.ident, p.attr.where_clause, sc.where_clause)
                      \o impl_default_body(sc.ident, fields) \o <<"}", "}">>)],
              errors |-> <<>>]

\* mutant: the arm for unions is missing
expand_no_union(attr, item) ==
    IF attr.expr # <<>>
    THEN IF item = "Error"
         THEN [out |-> <<>>, errors |-> <<SyntaxError>>]
         ELSE IF item \in {"Enum", "Struct", "Type"}
         THEN [out |-> gen_expr(attr, TypeIdent, FALSE), errors |-> <<>>]
         ELSE [out |-> <<>>, errors |-> <<UnsupportedItem>>]
    ELSE [out |-> <<>>, errors |-> <<MissingContext>>]

\* ---------------------------------------------- ImplDefault::expand (free)
expand(attr, item) ==
    IF attr.expr # <<>>
    THEN IF item = "Error"
         THEN [out |-> <<>>, errors |-> <<SyntaxError>>]
         ELSE IF item \in {"Enum", "Struct", "Type", "Union"}
         THEN [out |-> gen_expr(attr, TypeIdent, FALSE), errors |-> <<>>]
         ELSE [out |-> <<>>, errors |-> <<UnsupportedItem>>]
    ELSE [out |-> <<>>, errors |-> <<MissingContext>>]

\* ------------------------------------------------------ autoimpl generators
\* the syn::ItemStruct an autoimpl generator is given: the declaration with
\* plain fields (syn's Field has no default expression)
ItemStruct(sc) ==
    [ident |-> sc.ident,
     fields |-> [kind |-> sc.fields.kind,
                 fields |-> [i \in 1..Len(sc.fields.fields) |->
                                [ident |-> sc.fields.fields[i].ident,
                                 ty |-> sc.fields.fields[i].ty]]]]

ignore_named(args, ident) == ident \in args.named
ignore_unnamed(args, index) == index \in args.unnamed

\* Index::from(i) as a token
Index(i) == ToString(i)

\* mutant: the test of the ignore set is inverted
ImplClone_named_inverted(field, args) ==
    IF ~ignore_named(args, field.ident[1])
    THEN field.ident \o <<":">> \o DefaultDefault \o <<",">>
    ELSE field.ident \o <<":", "self", ".">> \o field.ident
         \o <<".", "clone", "(", ")", ",">>

ImplClone_named(field, args) ==
    IF ignore_named(args, field.ident[1])
    THEN field.ident \o <<":">> \o DefaultDefault \o <<",">>
    ELSE field.ident \o <<":", "self", ".">> \o field.ident
         \o <<".", "clone", "(", ")", ",">>

ImplClone_unnamed(i, args) ==
    IF ignore_unnamed(args, i)
    THEN DefaultDefault \o <<",">>
    ELSE <<"self", ".", Index(i), ".", "clone", "(", ")", ",">>

ImplClone_struct_items(item, args) ==
    LET fs == item.fields.fields
        inner ==
          IF item.fields.kind = "Named"
          THEN <<item.ident, "{">>
               \o Concat([i \in 1..Len(fs) |-> ImplClone_named(fs[i], args)])
               \o <<"}">>
          ELSE IF item.fields.kind = "Unnamed"
          THEN <<item.ident, "(">>
               \o Concat([i \in 1..Len(fs) |-> ImplClone_unnamed(i - 1, args)])
               \o <<")">>
          ELSE <<item.ident>>
    IN  <<"fn", "clone", "(", "&", "self", ")", "->", "Self", "{">>
        \o inner \o <<"}">>

\* a string literal token
Lit(s) == <<"\"", s, "\"">>

ImplDebug_named(field, args) ==
    IF ~ignore_named(args, field.ident[1])
    THEN <<".", "field", "(">> \o Lit(field.ident[1])
         \o <<",", "&", "self", ".">> \o field.ident \o <<")">>
    ELSE <<>>

ImplDebug_unnamed(i, args) ==
    IF ~ignore_unnamed(args, i)
    THEN <<".", "field", "(", "&", "self", ".", Index(i), ")">>
    ELSE <<".", "field", "(", "&", "format_args", "!", "(">> \o Lit("_")
         \o <<")", ")">>

\* mutant: any ignore argument counts as a skip, declared or not
ImplDebug_no_skips_any(fs, args) == args.named = {}

\* the no_skips flag of ImplDebug::struct_items after its loop
ImplDebug_no_skips(fs, args) ==
    \A i \in 1..Len(fs) : ~ignore_named(args, fs[i].ident[1])

ImplDebug_struct_items(item, args) ==
    LET fs == item.fields.fields
        inner ==
          IF item.fields.kind = "Named"
          THEN <<"f", ".", "debug_struct", "(">> \o Lit(item.ident) \o <<")">>
               \o Concat([i \in 1..Len(fs) |-> ImplDebug_named(fs[i], args)])
               \o (IF ImplDebug_no_skips(fs, args)
                   THEN <<".", "finish", "(", ")">>
                   ELSE <<".", "finish_non_exhaustive", "(", ")">>)
          ELSE IF item.fields.kind = "Unnamed"
          THEN <<"f", ".", "debug_tuple", "(">> \o Lit(item.ident) \o <<")">>
               \o Concat([i \in 1..Len(fs) |-> ImplDebug_unnamed(i - 1, args)])
               \o <<".", "finish", "(", ")">>
          ELSE <<"f", ".", "write_str", "(">> \o Lit(item.ident) \o <<")">>
    IN  <<"fn", "fmt", "(", "&", "self", ",", "f", ":", "&", "mut", "core", "::",
          "fmt", "::", "Formatter", ")", "->", "core", "::", "fmt", "::",
          "Result", "{">>
        \o inner \o <<"}">>

ImplDefault_named(field) == field.ident \o <<":">> \o DefaultDefault \o <<",">>

ImplDefault_struct_items(item) ==
    LET fs == item.fields.fields
        inner ==
          IF item.fields.kind = "Named"
          THEN <<item.ident, "{">>
               \o Concat([i \in 1..Len(fs) |-> ImplDefault_named(fs[i])])
               \o <<"}">>
          ELSE IF item.fields.kind = "Unnamed"
          THEN <<item.ident, "(">>
               \o Concat([i \in 1..Len(fs) |-> DefaultDefault \o <<",">>])
               \o <<")">>
          ELSE <<item.ident>>
    IN  <<"fn", "default", "(", ")", "->", "Self", "{">> \o inner \o <<"}">>

\* ------------------------------------------------------------ state machine
VARIABLES
    input,   \* the token stream of the struct body handed to data_struct
    pc,      \* "source": a struct body not parsed yet, "scope": a Scope exists,
             \* "failed": the body did not parse; "item" / "expanded": an item
             \* outside a scope, before and after ImplDefault::expand
    scope,   \* the Scope: item kind, ident, where-clause, fields, generated
    op,      \* the last operation and its arguments
    ret,     \* the Result of the last operation: "Ok" or "Err"
    out,     \* the TokenStream the last operation returned
    errors   \* the diagnostics the last operation emitted or returned

vars == <<input, pc, scope, op, ret, out, errors>>

\* -- the inputs
FieldVariants == 1..2

\* the source text of one field; the name is used by a named field only
SrcField(name, v, named) ==
    (IF v = 2 THEN <<"#[doc]", "pub">> ELSE <<>>)
    \o (IF named THEN <<name, ":">> ELSE <<>>)
    \o (IF v = 2 THEN <<"i32", "=", "e2", "+", "e1">> ELSE <<"u8">>)

SrcGroup(open, close, vs, named, trailing) ==
    <<open>>
    \o JoinWith([i \in 1..Len(vs) |-> SrcField(NamePool[i], vs[i], named)], <<",">>)
    \o (IF trailing /\ vs # <<>> THEN <<",">> ELSE <<>>)
    \o <<close>>

Groups(open, close, trailing) ==
    UNION {{SrcGroup(open, close, vs, named, trailing) :
               vs \in [1..n -> FieldVariants], named \in BOOLEAN} : n \in 0..MaxFields}

\* every layout of where-clauses and terminator around a field list, and the
\* plain layouts around a field list with a trailing comma
Inputs ==
    {pre \o g : pre \in {<<>>, <<"where">>}, g \in Groups("{", "}", FALSE)}
    \cup Groups("{", "}", TRUE)
    \cup {pre \o g \o post : pre \in {<<>>, <<"where">>},
             g \in Groups("(", ")", FALSE),
             post \in {<<>>, <<";">>, <<"where", ";">>, <<"impl">>}}
    \cup {g \o <<";">> : g \in Groups("(", ")", TRUE)}
    \cup {pre \o post : pre \in {<<>>, <<"where">>},
             post \in {<<>>, <<";">>, <<"impl">>}}

AttrStreams ==
    {<<>>, <<"compute_default">>, <<"e1", "+", "e2", "where">>,
     <<"where", "e1">>, <<"+">>}

DeclaredNames == {NamePool[i] : i \in 1..(MaxFields + 1)}

\* ignore(..) with no field, one field or every field, by name or by index
ArgsSet ==
    {[named |-> S, unnamed |-> {}] :
        S \in {{}, DeclaredNames} \cup {{n} : n \in DeclaredNames}}
    \cup {[named |-> {}, unnamed |-> U] :
        U \in {0..(MaxFields - 1)} \cup {{i} : i \in 0..(MaxFields - 1)}}

NoArgs == [named |-> {}, unnamed |-> {}]

Items == {"Enum", "Struct", "Type", "Union", "Fn", "Mod", "Error"}

NoScope == [item |-> "None", ident |-> TypeIdent, where_clause |-> FALSE,
            fields |-> NoFields, semi |-> FALSE, generated |-> <<>>]

Op(name, attr, args, item) ==
    [name |-> name, attr |-> attr, args |-> args, item |-> item]

Init ==
    /\ op = Op("none", <<>>, NoArgs, "")
    /\ ret = "Ok"
    /\ out = <<>>
    /\ errors = <<>>
    /\ \/ /\ input \in Inputs
          /\ pc = "source"
          /\ scope = NoScope
       \/ /\ input = <<>>
          /\ pc = "scope"
          /\ scope = [NoScope EXCEPT !.item = "Enum"]
       \/ /\ input = <<>>
          /\ pc = "item"
          /\ scope = NoScope

\* the struct body is parsed by data_struct and the Scope is built
ParseStruct ==
    /\ pc = "source"
    /\ \E r \in {data_struct(input)} :
          /\ pc' = IF r.ok THEN "scope" ELSE "failed"
          /\ scope' = IF r.ok
                      THEN [NoScope EXCEPT !.item = "Struct",
                                           !.where_clause = r.where_clause,
                                           !.fields = r.fields,
                                           !.semi = r.semi]
                      ELSE scope
          /\ ret' = IF r.ok THEN "Ok" ELSE "Err"
          /\ errors' = IF r.ok THEN <<>> ELSE <<SyntaxError>>
    /\ op' = Op("data_struct", <<>>, NoArgs, "")
    /\ out' = <<>>
    /\ UNCHANGED input

\* #[impl_default(..)] inside the scope
ImplDefaultAttr ==
    /\ pc = "scope"
    /\ Len(scope.generated) < MaxGen
    /\ \E attr \in AttrStreams :
          LET r == impl_default(attr, scope) IN
          /\ scope' = r.scope
          /\ ret' = r.ret
          /\ errors' = r.errors
          /\ op' = Op("impl_default", attr, NoArgs, "")
    /\ out' = <<>>
    /\ UNCHANGED <<input, pc>>

\* the field list of the scope's struct is rendered
Render ==
    /\ pc = "scope"
    /\ scope.item = "Struct"
    /\ out' = Fields_to_tokens(scope.fields)
    /\ errors' = Fields_emit_errors(scope.fields)
    /\ ret' = "Ok"
    /\ op' = Op("to_tokens", <<>>, NoArgs, "")
    /\ UNCHANGED <<input, pc, scope>>

AutoimplClone ==
    /\ pc = "scope"
    /\ scope.item = "Struct"
    /\ \E args \in ArgsSet :
          /\ out' = ImplClone_struct_items(ItemStruct(scope), args)
          /\ op' = Op("Clone", <<>>, args, "")
    /\ ret' = "Ok"
    /\ errors' = <<>>
    /\ UNCHANGED <<input, pc, scope>>

AutoimplDebug ==
    /\ pc = "scope"
    /\ scope.item = "Struct"
    /\ \E args \in ArgsSet :
          /\ out' = ImplDebug_struct_items(ItemStruct(scope), args)
          /\ op' = Op("Debug", <<>>, args, "")
    /\ ret' = "Ok"
    /\ errors' = <<>>
    /\ UNCHANGED <<input, pc, scope>>

AutoimplDefault ==
    /\ pc = "scope"
    /\ scope.item = "Struct"
    /\ out' = ImplDefault_struct_items(ItemStruct(scope))
    /\ op' = Op("Default", <<>>, NoArgs, "")
    /\ ret' = "Ok"
    /\ errors' = <<>>
    /\ UNCHANGED <<input, pc, scope>>

\* #[impl_default(..)] on an item outside a scope
Expand ==
    /\ pc = "item"
    /\ pc' = "expanded"
    /\ \E attr \in AttrStreams, item \in Items :
          /\ Parse_ImplDefault(attr).ok
          /\ LET r == expand(Parse_ImplDefault(attr).attr, item) IN
             /\ out' = r.out
             /\ errors' = r.errors
          /\ op' = Op("expand", attr, NoArgs, item)
    /\ ret' = "Ok"
    /\ UNCHANGED <<input, scope>>

Next ==
    \/ ParseStruct
    \/ ImplDefaultAttr
    \/ Render
    \/ AutoimplClone
    \/ AutoimplDebug
    \/ AutoimplDefault
    \/ Expand

Spec == Init /\ [][Next]_vars

TypeOK ==
    /\ pc \in {"source", "scope", "failed", "item", "expanded"}
    /\ ret \in {"Ok", "Err"}
    /\ Len(scope.generated) <= MaxGen
    /\ Len(scope.fields.fields) <= MaxFields

\* ================================================================ properties
\* -- reading a generated token stream back
\* the token lists of a comma separated (or comma terminated) list
RECURSIVE Split(_)
Split(toks) ==
    IF toks = <<>> THEN <<>>
    ELSE LET j == IndexOf(toks, ",", 1) IN
         IF j = 0 THEN <<toks>>
         ELSE <<SubSeq(toks, 1, j - 1)>> \o Split(Drop(toks, j))

\* the body of the function of a fragment `impl .. { fn default() -> Self { body } }`
BodyOf(frag) == SubSeq(frag, IndexOf(frag, "Self", 1) + 2, Len(frag) - 2)
\* the body of a bare function `fn f(..) -> R { body }`
FnBody(toks, r) == SubSeq(toks, IndexOf(toks, r, 1) + 2, Len(toks) - 1)
\* the tokens between the outer delimiters of `Ident { .. }` or `Ident ( .. )`
Inside(toks) == SubSeq(toks, 3, Len(toks) - 1)

Last(s) == s[Len(s)]
Toks(s) == {s[i] : i \in 1..Len(s)}

\* the expression an attribute stream carries: what precedes its where-clause
ExplicitExpr(attr) ==
    LET j == IndexOf(attr, "where", 1)
    IN  IF j = 0 THEN attr ELSE SubSeq(attr, 1, j - 1)

\* -- the declaration
Parsed == data_struct(input)
Decl == scope.fields.fields
Kind == scope.fields.kind
IsStructScope == pc = "scope" /\ scope.item = "Struct"
HasAssign(fs) == \E i \in 1..Len(fs) : fs[i].assign # <<>>
IgnoredNamed(i) == Decl[i].ident[1] \in op.args.named
IgnoredUnnamed(i) == (i - 1) \in op.args.unnamed

\* the impl_default invocation that just ran had / had no expression
DefaultWithExpr ==
    op.name = "impl_default" /\ ret = "Ok" /\ ExplicitExpr(op.attr) # <<>>
DefaultNoExpr ==
    op.name = "impl_default" /\ ret = "Ok" /\ ExplicitExpr(op.attr) = <<>>

\* C1: an impl_default invocation with an explicit expression pushes exactly
\* one fragment, and the body of its function is that expression verbatim,
\* whatever the shape of the record and whatever defaults its fields carry.
C1_ExplicitExprVerbatim ==
    [][(op'.name = "impl_default" /\ ret' = "Ok" /\ ExplicitExpr(op'.attr) # <<>>)
        => /\ Len(scope'.generated) = Len(scope.generated) + 1
           /\ SubSeq(scope'.generated, 1, Len(scope.generated)) = scope.generated
           /\ BodyOf(Last(scope'.generated)) = ExplicitExpr(op'.attr)]_vars

C1_Witness ==
    /\ DefaultWithExpr
    /\ IsStructScope
    /\ HasAssign(Decl)
    /\ Len(scope.generated) = 1

\* C2: ImplClone::struct_items emits one initializer per declared field in
\* declaration order; initializer i is the generic default if field i is
\* ignored and a clone of field i itself otherwise; a unit record yields the
\* bare type identifier.
C2_CloneInitializers ==
    (op.name = "Clone") =>
        LET inner == FnBody(out, "Self")
            inits == Split(Inside(inner))
        IN  IF Kind = "Unit" THEN inner = <<TypeIdent>>
            ELSE /\ inner[1] = TypeIdent
                 /\ inner[2] = (IF Kind = "Named" THEN "{" ELSE "(")
                 /\ Last(inner) = (IF Kind = "Named" THEN "}" ELSE ")")
                 /\ Len(inits) = Len(Decl)
                 /\ \A i \in 1..Len(Decl) :
                       inits[i] =
                         IF Kind = "Named"
                         THEN IF IgnoredNamed(i)
                              THEN <<Decl[i].ident[1], ":", "Default", "::",
                                     "default", "(", ")">>
                              ELSE <<Decl[i].ident[1], ":", "self", ".",
                                     Decl[i].ident[1], ".", "clone", "(", ")">>
                         ELSE IF IgnoredUnnamed(i)
                              THEN <<"Default", "::", "default", "(", ")">>
                              ELSE <<"self", ".", ToString(i - 1), ".", "clone",
                                     "(", ")">>

C2_Witness ==
    /\ op.name = "Clone"
    /\ Len(Decl) >= 2
    /\ Kind = "Named"
    /\ IgnoredNamed(2)
    /\ ~IgnoredNamed(1)

\* C3: ImplDebug::struct_items on a named record emits field entries for
\* exactly the non-ignored fields in declaration order and ends with the
\* exhaustive finish iff no declared field is ignored, with the
\* non-exhaustive finish otherwise.
C3_DebugFinish ==
    (op.name = "Debug" /\ Kind = "Named") =>
        LET inner == FnBody(out, "Result")
            kept == SelectSeq([i \in 1..Len(Decl) |-> Decl[i].ident[1]],
                              LAMBDA n : n \notin op.args.named)
            entries == Concat([i \in 1..Len(kept) |->
                          <<".", "field", "(", "\"", kept[i], "\"", ",", "&",
                            "self", ".", kept[i], ")">>])
            finish == IF Len(kept) = Len(Decl) THEN "finish"
                      ELSE "finish_non_exhaustive"
        IN  inner = <<"f", ".", "debug_struct", "(", "\"", TypeIdent, "\"", ")">>
                    \o entries \o <<".", finish, "(", ")">>

C3_Witness ==
    /\ op.name = "Debug"
    /\ Kind = "Named"
    /\ Len(Decl) >= 2
    /\ IgnoredNamed(1)
    /\ ~IgnoredNamed(2)
    /\ "finish_non_exhaustive" \in Toks(out)

C3_WitnessUndeclared ==
    /\ op.name = "Debug"
    /\ Kind = "Named"
    /\ Len(Decl) >= 1
    /\ op.args.named # {}
    /\ \A i \in 1..Len(Decl) : ~IgnoredNamed(i)

\* the value of field i in a per-field default constructor: its own default
\* expression as parsed, else the generic default
DefaultValue(i) ==
    IF Parsed.fields.fields[i].assign # <<>>
    THEN Parsed.fields.fields[i].assign
    ELSE DefaultDefault

\* C4: impl_default with no expression on a named or positional struct
\* renders a constructor of the record's shape: `Foo { name: value, .. }` for
\* a named record, `Foo ( value, .. )` for a positional record, one
\* initializer per field in declaration order, whose value is the field's
\* own default expression as parsed, else the generic default.  Stated for
\* records with at least one field, where the two constructor forms differ
\* in more than their delimiters.
C4_ConstructorMatchesShape ==
    (DefaultNoExpr /\ IsStructScope /\ Kind \in {"Named", "Unnamed"}
        /\ Len(Decl) >= 1) =>
        LET body == BodyOf(Last(scope.generated))
            inits == Split(Inside(body))
        IN  /\ body[1] = TypeIdent
            /\ body[2] = (IF Kind = "Named" THEN "{" ELSE "(")
            /\ Last(body) = (IF Kind = "Named" THEN "}" ELSE ")")
            /\ Len(inits) = Len(Decl)
            /\ \A i \in 1..Len(Decl) :
                  inits[i] = IF Kind = "Named"
                             THEN <<Decl[i].ident[1], ":">> \o DefaultValue(i)
                             ELSE DefaultValue(i)

C6_DanglingDefaultDropped ==
    (op.name = "to_tokens" /\ Kind \in {"Named", "Unnamed"}) =>
        LET rendered == Split(SubSeq(out, 2, Len(out) - 1))
        IN  /\ Len(rendered) = Len(Decl)
            /\ \A i \in 1..Len(Decl) :
                  rendered[i] =
                      Decl[i].attrs \o Decl[i].vis
                      \o (IF Kind = "Named" THEN <<Decl[i].ident[1], ":">> ELSE <<>>)
                      \o Decl[i].ty
            /\ Toks(out) \cap ({"="} \cup ExprAtoms) = {}
            /\ Len(errors) = Cardinality({i \in 1..Len(Decl) : Decl[i].assign # <<>>})
            /\ \A k \in 1..Len(errors) : errors[k] = DanglingDefault

C6_Witness ==
    /\ op.name = "to_tokens"
    /\ HasAssign(Decl)
    /\ \E i \in 1..Len(Decl) : Decl[i].assign = <<>>
    /\ Len(errors) = 1

\* C7: ImplDefault::expand returns a non-empty fragment iff an expression is
\* present and the item is a struct, enum, type alias or union, and then the
\* body is the expression; with no expression it raises MissingContext, and
\* with an expression on any other item it raises a diagnostic; in both
\* cases the output is empty.
C7_ExpandOutput ==
    (pc = "expanded") =>
        LET expr == ExplicitExpr(op.attr)
            supported == op.item \in {"Struct", "Enum", "Type", "Union"}
        IN  /\ (out # <<>>) <=> (expr # <<>> /\ supported)
            /\ (out # <<>>) => (BodyOf(out) = expr /\ errors = <<>>)
            /\ (expr = <<>>) => (errors = <<MissingContext>> /\ out = <<>>)
            /\ (expr # <<>> /\ ~supported) => (Len(errors) = 1 /\ out = <<>>)

C7_Witness ==
    /\ pc = "expanded"
    /\ op.item = "Union"
    /\ out # <<>>

C7_WitnessMissingContext ==
    /\ pc = "expanded"
    /\ op.item = "Struct"
    /\ errors = <<MissingContext>>

\* -- the forms of a struct body, read off the input tokens
LeadingWhere == Peek(input, "where")
BodyToks == IF LeadingWhere THEN Tail(input) ELSE input
Form ==
    IF Peek(BodyToks, "(") THEN "positional"
    ELSE IF Peek(BodyToks, "{") THEN "named"
    ELSE IF Peek(BodyToks, ";") THEN "unit"
    ELSE "other"
GroupContent(close) == SubSeq(BodyToks, 2, IndexOf(BodyToks, close, 1) - 1)
AfterGroup(close) == Drop(BodyToks, IndexOf(BodyToks, close, 1))
\* a statement terminator, possibly preceded by a where-clause
TerminatedAfter(toks) ==
    Peek(toks, ";") \/ (Peek(toks, "where") /\ Peek(Tail(toks), ";"))
WasParsed == pc \in {"scope", "failed"} /\ scope.item # "Enum"

\* C8 as stated: a leading where-clause is accepted before every body form
\* (named, positional, unit), the positional form also accepts one after the
\* field list, the positional and unit forms need the statement terminator,
\* and every other input is a syntax error.
C8_LeadingWhereEveryForm ==
    WasParsed =>
        ((pc = "scope") <=>
            \/ Form = "named" /\ parse_terminated(GroupContent("}"), TRUE).ok
            \/ Form = "unit"
            \/ /\ Form = "positional"
               /\ parse_terminated(GroupContent(")"), FALSE).ok
               /\ TerminatedAfter(AfterGroup(")")))

\* C8 amended: a leading where-clause is accepted before the named and the
\* unit form only; the positional form is accepted only without a leading
\* where-clause, optionally with a where-clause after its field list; the
\* positional and unit forms need the statement terminator; every other
\* input is a syntax error.
C8_LeadingWhereNamedUnit ==
    WasParsed =>
        /\ (pc = "scope") <=>
              \/ Form = "named" /\ parse_terminated(GroupContent("}"), TRUE).ok
              \/ Form = "unit"
              \/ /\ Form = "positional"
                 /\ ~LeadingWhere
                 /\ parse_terminated(GroupContent(")"), FALSE).ok
                 /\ TerminatedAfter(AfterGroup(")"))
        /\ (pc = "scope") =>
              /\ Kind = (IF Form = "named" THEN "Named"
                         ELSE IF Form = "unit" THEN "Unit" ELSE "Unnamed")
              /\ scope.semi = (Form # "named")
              /\ scope.where_clause =
                    (LeadingWhere \/ (Form = "positional"
                                      /\ Peek(AfterGroup(")"), "where")))
        /\ (pc = "failed") => (ret = "Err" /\ errors = <<SyntaxError>>)

C8_Witness ==
    /\ pc = "scope"
    /\ Form = "positional"
    /\ scope.where_clause
    /\ Len(Decl) >= 1

C8_WitnessLeadingWhere ==
    /\ pc = "scope"
    /\ LeadingWhere
    /\ Form = "named"

C8_WitnessRejected ==
    /\ pc = "failed"
    /\ LeadingWhere
    /\ Form = "positional"
    /\ parse_terminated(GroupContent(")"), FALSE).ok
    /\ TerminatedAfter(AfterGroup(")"))

\* a field list without the default expressions of its fields
WithoutDefaults(fs) ==
    [fs EXCEPT !.fields = [i \in 1..Len(fs.fields) |->
                              [fs.fields[i] EXCEPT !.assign = <<>>]]]

\* C9 as stated: after any sequence of capability invocations the field list
\* of the declaration, default expressions included, is what the parser
\* produced.
C9_DescriptorImmutable ==
    IsStructScope => scope.fields = Parsed.fields

\* C9 amended: no capability invocation changes the identifiers, types,
\* attributes, visibility or order of the fields; the only change any of
\* them makes is that impl_default without an explicit expression removes
\* the default expression of every field; the copy, debug-formatting and
\* autoimpl default generators and impl_default with an explicit expression
\* leave the field list as it was.
C9_OnlyDefaultsDischarged ==
    [][(pc = "scope") =>
          /\ WithoutDefaults(scope'.fields) = WithoutDefaults(scope.fields)
          /\ (scope'.fields # scope.fields) =>
                /\ op'.name = "impl_default"
                /\ ExplicitExpr(op'.attr) = <<>>
                /\ ~HasAssign(scope'.fields.fields)]_vars

C9_Witness ==
    /\ IsStructScope
    /\ DefaultNoExpr
    /\ scope.fields # Parsed.fields
    /\ WithoutDefaults(scope.fields) = WithoutDefaults(Parsed.fields)

\* the fragments of the two paths of impl_default: the body of one is an
\* expression, the body of the other starts with the type identifier
IsPerFieldFragment(frag) == BodyOf(frag)[1] = TypeIdent
HadNoExprInvocation ==
    \E k \in 1..Len(scope.generated) : IsPerFieldFragment(scope.generated[k])

\* C10: once an impl_default without expression has run on a named or
\* positional struct no field carries a default expression and rendering the
\* field list raises no diagnostic; while only invocations with an explicit
\* expression have run every default expression is still attached and
\* rendering raises the diagnostic for each such field.
C10_DefaultsDischarged ==
    (IsStructScope /\ Kind \in {"Named", "Unnamed"}) =>
        IF HadNoExprInvocation
        THEN /\ ~HasAssign(Decl)
             /\ (op.name = "to_tokens") => errors = <<>>
        ELSE /\ \A i \in 1..Len(Decl) : Decl[i].assign = Parsed.fields.fields[i].assign
             /\ (op.name = "to_tokens") =>
                   errors = [k \in 1..Cardinality({i \in 1..Len(Decl) :
                                Parsed.fields.fields[i].assign # <<>>})
                             |-> DanglingDefault]

C10_Witness ==
    /\ IsStructScope
    /\ HadNoExprInvocation
    /\ HasAssign(Parsed.fields.fields)
    /\ op.name = "to_tokens"
    /\ errors = <<>>

C10_WitnessStillAttached ==
    /\ IsStructScope
    /\ ~HadNoExprInvocation
    /\ Len(scope.generated) = MaxGen
    /\ op.name = "to_tokens"
    /\ errors # <<>>

====
